---- MODULE Spec2Model ----
(***************************************************************************)
(* Job-portal backend: the authorization and lifecycle layer.              *)
(*                                                                         *)
(* Every request is a little process.  One action is one block of code     *)
(* that Node runs without yielding: a storage (or file-system) access      *)
(* together with the synchronous code that follows it up to the next       *)
(* await.  protect's account lookup, its checks, the synchronous authorize *)
(* middleware and the start of the handler are therefore one action        *)
(* (Arrive); each later await of a handler is one more action.             *)
(***************************************************************************)
EXTENDS Integers, Sequences, FiniteSets, TLC

\* ------------------------------------------------------------------ bounds
MaxApps == 2        \* Application documents the collection may hold
MaxSegs == 5        \* path segments of a stored resume reference
MaxJobs == 3        \* Job documents ever created
MaxSignups == 2     \* User documents created by signup

\* ---------------------------------------------------------- identifiers
\* A Mongoose ObjectId is an object; .toString() gives its hex string.
Oid(n) == [t |-> "oid", v |-> n]
toString(x) == [t |-> "str", v |-> x.v]

\* JavaScript's !== : two strings differ when their characters differ; a
\* string and an object, or two distinct objects, are never strictly equal.
StrictNeq(a, b) == IF a.t = "str" /\ b.t = "str" THEN a.v # b.v ELSE TRUE

Roles == {"applicant", "recruiter", "admin"}

\* ------------------------------------------------------------------ paths
\* Strings that the code takes apart are sequences of characters.
cwd == <<"/", "a", "p", "p">>
uploadsName == <<"u", "p", "l", "o", "a", "d", "s">>
uploadPath == uploadsName \o <<"/", "r", "e", "s", "u", "m", "e", "s">>
fieldname == <<"r", "e", "s", "u", "m", "e">>
Digit(n) == IF n = 1 THEN "1" ELSE IF n = 2 THEN "2" ELSE IF n = 3 THEN "3" ELSE "4"

\* The segments of a path: the pieces between its "/" characters, in order
\* (empty pieces included).
SplitPath(s) ==
    LET slashes == {i \in 1 .. Len(s) : s[i] = "/"}
        before(k) == CHOOSE c \in {0} \cup slashes :
                        Cardinality({x \in slashes : x <= c}) = k - 1
        after(c) == CHOOSE d \in slashes \cup {Len(s) + 1} :
                        d > c /\ \A e \in slashes : e > c => e >= d
    IN [k \in 1 .. Cardinality(slashes) + 1 |->
            SubSeq(s, before(k) + 1, after(before(k)) - 1)]

RECURSIVE NormalizeSegs(_, _)
NormalizeSegs(segs, acc) ==
    IF segs = <<>> THEN acc
    ELSE LET seg == Head(segs) IN
         IF seg = <<>> \/ seg = <<".">> THEN NormalizeSegs(Tail(segs), acc)
         ELSE IF seg = <<".", ".">>
              THEN NormalizeSegs(Tail(segs),
                       IF acc = <<>> THEN acc ELSE SubSeq(acc, 1, Len(acc) - 1))
              ELSE NormalizeSegs(Tail(segs), Append(acc, seg))

RECURSIVE JoinPath(_)
JoinPath(segs) ==
    IF segs = <<>> THEN <<>> ELSE <<"/">> \o Head(segs) \o JoinPath(Tail(segs))

\* path.resolve(from, to): an absolute `to` stands alone, otherwise it is
\* appended to `from`; the result is normalized, without a trailing slash.
PathResolve(from, to) ==
    LET whole == IF to # <<>> /\ Head(to) = "/" THEN to ELSE from \o <<"/">> \o to
        segs == NormalizeSegs(SplitPath(whole), <<>>)
    IN IF segs = <<>> THEN <<"/">> ELSE JoinPath(segs)

\* String.prototype.startsWith
StartsWith(s, p) == Len(s) >= Len(p) /\ SubSeq(s, 1, Len(p)) = p

\* --------------------------------------------------------------- accounts
\* The accounts the store holds: one applicant, two recruiters, one admin.
InitEmails == <<"u1@x", "u2@x", "u3@x", "u4@x">>

\* The paths of the schema's profile object; "" is a path that is not set
\* (the skills array is then empty).
profileFields ==
    {"resumeUrl", "skills", "experience", "bio",
     "companyName", "companyLogo", "website", "description"}

NoProfile == [f \in profileFields |-> IF f = "skills" THEN <<>> ELSE ""]

InitUsers ==
    [n \in {1, 2, 3, 4} |->
        [_id |-> Oid(n),
         name |-> "N",
         profile |-> NoProfile,
         email |-> InitEmails[n],
         role |-> IF n = 1 THEN "applicant" ELSE IF n = 4 THEN "admin" ELSE "recruiter",
         isBlocked |-> FALSE]]

\* The subject of a token whose account is not in the store (deleted since
\* the token was signed): the first id no account has.
GhostId == Cardinality(DOMAIN InitUsers) + 1
SubjectIds == DOMAIN InitUsers \cup {GhostId}

\* What the Authorization header carries: nothing, a token jwt.verify
\* rejects, or a verified payload {id, role}.
NoToken == [bearer |-> FALSE, verifies |-> FALSE, id |-> 0, role |-> "none"]
BadToken == [bearer |-> TRUE, verifies |-> FALSE, id |-> 0, role |-> "none"]
ValidTokens == [bearer : {TRUE}, verifies : {TRUE}, id : SubjectIds, role : Roles]
Tokens == {NoToken, BadToken} \cup ValidTokens

\* The identifiers signup gives its accounts, and the tokens it signs for
\* them: jwt.sign({ id: newUser._id, role: newUser.role }).
SignupIds == (GhostId + 1) .. (GhostId + MaxSignups)
IssuedTokens == [bearer : {TRUE}, verifies : {TRUE}, id : SignupIds, role : Roles]

NoUser == [_id |-> Oid(0), role |-> "none", isBlocked |-> FALSE]

\* The schema's setters of email (lowercase, trim) on the values the model
\* uses.
castEmail(v) == IF v = " NEW@x" THEN "new@x" ELSE v

\* Validation of a new account before its save: role is one of the enum's
\* values (name, email and password are present when the handler gets here).
userSchemaValid(doc) == doc.role \in Roles

\* Request bodies of POST /auth/signup; "" stands for a field left out.
SignupBodies ==
    [name : {"N"}, password : {"", "secret"},
     email : {"new@x", " NEW@x", "other@x", InitEmails[1]},
     role : {"applicant", "admin", "root"}]

\* ------------------------------------------------------------------- jobs
requiredFields == {"title", "company", "location", "salaryRange", "description"}
trimmedFields == {"title", "company"}
statusEnum == {"open", "closed"}
allowedFields ==
    {"title", "company", "location", "salaryRange", "description", "requirements"}

NewJob(n, owner) ==
    [_id |-> Oid(n), title |-> "T1", company |-> "C1", location |-> "L1",
     salaryRange |-> "S1", description |-> "D1", requirements |-> <<>>,
     postedBy |-> Oid(owner), datePosted |-> 1, status |-> "open"]

InitJobs == [n \in {1, 2} |-> NewJob(n, n + 1)]
JobIds == DOMAIN InitJobs

\* String trim of the values the model uses: " " is all white space.
Trim(v) == IF v = " " THEN "" ELSE v

\* The schema's setters, run when a path is assigned.
castJob(field, value) == IF field \in trimmedFields THEN Trim(value) ELSE value

\* Mongoose validation of the assigned paths before a save: required strings
\* are non-empty, status is one of the enum's values.
jobSchemaValid(doc) ==
    /\ \A f \in DOMAIN doc \cap requiredFields : doc[f] # ""
    /\ "status" \in DOMAIN doc => doc["status"] \in statusEnum

\* Request bodies of PUT /jobs/:id.
Bodies ==
    { [title |-> "T2", postedBy |-> Oid(3), status |-> "closed",
       datePosted |-> 2, _id |-> Oid(2)],
      [title |-> " "],
      [requirements |-> <<"R">>] }

ModerationInputs == {"approved", "rejected", "closed"}

\* Request bodies of POST /jobs: complete (and naming an owner and a status
\* of its own), without description, with an empty location, with a title
\* of white space, with a location of white space.
CompleteBody ==
    [title |-> "T3", company |-> "C3", location |-> "L3", salaryRange |-> "S3",
     description |-> "D3", requirements |-> <<"R">>,
     postedBy |-> Oid(1), status |-> "closed"]

CreateBodies ==
    { CompleteBody,
      [f \in DOMAIN CompleteBody \ {"description"} |-> CompleteBody[f]],
      [CompleteBody EXCEPT !.location = ""],
      [CompleteBody EXCEPT !.title = " "],
      [CompleteBody EXCEPT !.location = " "] }

\* ----------------------------------------------------------- applications
\* The Application schema: the values of status, and the one a new document
\* gets when none is given.
applicationStatusEnum == {"applied", "shortlisted", "rejected"}
applicationDefaultStatus == "applied"

\* The status values a PUT /applications/:id/status body may carry.
StatusInputs == applicationStatusEnum \cup {"hired"}

\* An Application built with the resumeUrl of the request body, which the
\* multipart request does not carry.
NewApplicationBodyUrl(job, applicant, resumeUrl) ==
    [job |-> job, applicant |-> applicant, resumeUrl |-> <<>>,
     status |-> applicationDefaultStatus]

\* new Application({ job, applicant, resumeUrl })
NewApplication(job, applicant, resumeUrl) ==
    [job |-> job, applicant |-> applicant, resumeUrl |-> resumeUrl,
     status |-> applicationDefaultStatus]

\* A schema whose status path accepts any string.
applicationSchemaAny(doc) == TRUE

\* Validation of the assigned paths before application.save().
applicationSchemaValid(doc) ==
    "status" \in DOMAIN doc => doc["status"] \in applicationStatusEnum

\* ---------------------------------------------------------------- uploads
PDF == <<".", "p", "d", "f">>
EXE == <<".", "e", "x", "e">>
NoFile == <<>>
\* The extension of the attachment's original name; NoFile: no attachment.
FileInputs == {NoFile, PDF, EXE}

\* fileFilter: the regular expression /pdf|doc|docx/ matches the extension.
fileFilter(ext) == ext = PDF

\* The readings of Date.now() that name uploads.
Stamps == {1}

\* A storage whose destination is the system's temporary directory.
storedFilePathInTmp(now, ext) ==
    <<"/", "t", "m", "p", "/">> \o fieldname \o <<"-", Digit(now)>> \o ext

\* destination + "/" + filename, with filename = fieldname-Date.now()ext
storedFilePath(now, ext) == uploadPath \o <<"/">> \o fieldname \o <<"-", Digit(now)>> \o ext

\* The logo middleware: its own directory, field and filter.
logoUploadPath ==
    uploadsName \o <<"/", "c", "o", "m", "p", "a", "n", "y", "-", "l", "o", "g", "o", "s">>
logoFieldname == <<"l", "o", "g", "o">>
PNG == <<".", "p", "n", "g">>
LogoInputs == {NoFile, PNG, EXE}

\* fileFilter of the logo middleware: /jpeg|jpg|png|gif/ matches the extension.
logoFileFilter(ext) == ext = PNG

storedLogoPath(now, ext) ==
    logoUploadPath \o <<"/">> \o logoFieldname \o <<"-", Digit(now)>> \o ext

\* ------------------------------------------------------------------ state
VARIABLES
    users,      \* User collection: id -> account
    jobs,       \* Job collection: id -> posting
    apps,       \* Application collection, in insertion order
    files,      \* absolute paths of the files on disk
    req         \* the requests in flight

vars == <<users, jobs, apps, files, req>>

\* Two connections: up to two requests are in flight at the same time.
Reqs == {1, 2}

Ops == {"signup", "jobCreate", "jobFetch", "jobUpdate", "jobDelete", "moderate", "toggle", "apply",
        "applicants", "status", "resume",
        "profileMe", "profileUpdate", "profileUpload", "profileLogo",
        "listUsers", "stats"}

Idle ==
    [pc |-> "idle", op |-> "none", claimed |-> "none", user |-> NoUser, id |-> 0,
     file |-> NoFile, doc |-> <<>>, resp |-> 0, by |-> "none", error |-> "none"]

Init ==
    /\ users = InitUsers
    /\ jobs = InitJobs
    /\ apps = <<>>
    /\ files = {}
    /\ req = [r \in Reqs |-> Idle]

\* res.status(code) sent by component `by`: the request is over and its
\* locals are gone; the route, the caller and the addressed id stay on record
\* with the answer.
Answered(me, code, by) ==
    [Idle EXCEPT !.pc = "done", !.op = me.op, !.user = me.user, !.id = me.id,
                 !.resp = code, !.by = by]

\* A request the middlewares answer: decoded.role, the role its token
\* declares, is on record too.
Refused(me, decoded, code, by) ==
    [Answered(me, code, by) EXCEPT !.claimed = decoded.role]

Respond(r, code, by) == req' = [req EXCEPT ![r] = Answered(@, code, by)]

\* res.status(500).json({ message: "Server error", error: error.message })
RespondError(r, message) ==
    req' = [req EXCEPT ![r] = [Answered(@, 500, "handler") EXCEPT !.error = message]]

Goto(r, stage) == req' = [req EXCEPT ![r] = [@ EXCEPT !.pc = stage]]

\* req.user._id
Caller(r) == req[r].user._id.v

\* ------------------------------------------------------------ middlewares
\* protect without its blocked-account check.
protectSkipsBlocked(token, found) ==
    IF ~token.bearer THEN 401
    ELSE IF ~token.verifies THEN 401
    ELSE IF found = NoUser THEN 401
    ELSE 0

\* protect answering a missing account like a blocked one.
protectMissingIsForbidden(token, found) ==
    IF ~token.bearer THEN 401
    ELSE IF ~token.verifies THEN 401
    ELSE IF found = NoUser THEN 403
    ELSE IF found.isBlocked THEN 403
    ELSE 0

\* protect: 0 when the request may proceed, else the status it answers.
protect(token, found) ==
    IF ~token.bearer THEN 401
    ELSE IF ~token.verifies THEN 401
    ELSE IF found = NoUser THEN 401
    ELSE IF found.isBlocked THEN 403
    ELSE 0

\* User.findById(decoded.id)
findUser(id) == IF id \in DOMAIN users THEN users[id] ELSE NoUser

\* authorize trusting the role the token declares.
authorizeDeclared(user, decoded, roles) == decoded.role \in roles

\* authorize(...roles): the role of req.user, the account protect loaded.
authorize(user, decoded, roles) == user.role \in roles

\* The routes that run protect alone: every account that is not blocked
\* enters their handlers.
ProtectOnly == {"profileMe", "profileUpdate", "profileUpload", "profileLogo"}

\* The roles each route hands to authorize.
RouteRoles(op) ==
    CASE op = "apply" -> {"applicant"}
      [] op = "jobFetch" -> {"applicant", "recruiter", "admin"}
      [] op \in {"moderate", "toggle", "listUsers", "stats"} -> {"admin"}
      [] OTHER -> {"recruiter", "admin"}

\* An apply route whose handler looks the posting up before anything is
\* stored.
FirstStageLookup(op) ==
    CASE op = "apply" -> "apply_findJob"
      [] op = "jobDelete" -> "delete_find"
      [] OTHER -> "idle"

FirstStage(op) ==
    CASE op = "signup" -> "signup_find"
      [] op = "jobCreate" -> "job_create"
      [] op = "jobFetch" -> "fetch_find"
      [] op = "jobUpdate" -> "update_find"
      [] op = "jobDelete" -> "delete_find"
      [] op = "moderate" -> "moderate_find"
      [] op = "toggle" -> "toggle_find"
      [] op = "apply" -> "apply_upload"
      [] op = "applicants" -> "applicants_findJob"
      [] op = "status" -> "status_find"
      [] op = "resume" -> "resume_find"
      [] op = "profileMe" -> "me_update"
      [] op = "profileUpdate" -> "profile_find"
      [] op = "profileUpload" -> "upload_store"
      [] op = "profileLogo" -> "logo_store"
      [] op = "listUsers" -> "users_find"
      [] op = "stats" -> "stats_count"

\* req.user = the account protect loaded; of its paths the handlers read
\* _id and role, and protect itself isBlocked.
reqUser(found) == [f \in DOMAIN NoUser |-> found[f]]

\* What protect, authorize and the entry into the handler make of a request
\* for route `op` carrying `token`.
ArriveResult(token, op) ==
    LET found == IF token.bearer /\ token.verifies THEN findUser(token.id) ELSE NoUser
        code == protect(token, found)
        entered == [Idle EXCEPT !.op = op, !.user = reqUser(found)]
    IN IF code # 0
       THEN Refused(entered, token, code, "protect")
       ELSE IF op \notin ProtectOnly /\ ~authorize(found, token, RouteRoles(op))
       THEN Refused(entered, token, 403, "authorize")
       ELSE [entered EXCEPT !.pc = FirstStage(op)]

\* A request for one of `ops` arrives on a free connection: protect looks the
\* account up and checks it, authorize checks the role, and the handler is
\* entered.
Arrive(r, ops) ==
    /\ req[r].pc = "idle"
    /\ \E token \in Tokens, op \in ops :
         req' = [req EXCEPT ![r] = ArriveResult(token, op)]
    /\ UNCHANGED <<users, jobs, apps, files>>

\* The same arrival, of a request whose token is one of `tokens`.
ArriveWith(r, tokens, ops) ==
    /\ req[r].pc = "idle"
    /\ \E token \in tokens, op \in ops :
         req' = [req EXCEPT ![r] = ArriveResult(token, op)]
    /\ UNCHANGED <<users, jobs, apps, files>>

\* The tokens that name account n, whatever role they declare.
TokensOf(n) == {t \in ValidTokens : t.id = n}

\* The response has been sent: the connection is free for the next request.
Finish(r) ==
    /\ req[r].pc = "done"
    /\ req' = [req EXCEPT ![r] = Idle]
    /\ UNCHANGED <<users, jobs, apps, files>>

\* ---------------------------------------------------- POST /auth/signup
\* A public route: no middleware runs before its handler.
SignupArrive(r) ==
    /\ req[r].pc = "idle"
    /\ req' = [req EXCEPT ![r] = [Idle EXCEPT !.op = "signup", !.pc = FirstStage("signup")]]
    /\ UNCHANGED <<users, jobs, apps, files>>

\* !name || !email || !password || !role
signupMissing(body) ==
    \E f \in {"name", "email", "password", "role"} : body[f] = ""

\* User.findOne({ email }): the filter is cast like the path.
findByEmail(coll, email) == {u \in DOMAIN coll : coll[u].email = castEmail(email)}

\* A collection without its index on email.
emailIndexAbsent(coll, doc) == TRUE

\* unique: true on email: the index refuses a second document with an email
\* the collection holds.
emailIndexAccepts(coll, doc) == \A u \in DOMAIN coll : coll[u].email # doc.email

\* A signup that leaves the role to the schema's default.
NewUserDefaultRole(n, body) ==
    [_id |-> Oid(n), name |-> body.name, profile |-> NoProfile,
     email |-> castEmail(body.email), role |-> "applicant", isBlocked |-> FALSE]

\* new User({ name, email, password: hashedPassword, role })
NewUser(n, body) ==
    [_id |-> Oid(n), name |-> body.name, profile |-> NoProfile,
     email |-> castEmail(body.email), role |-> body.role, isBlocked |-> FALSE]

\* The identifier of the next User document, past those tokens name.
nextUserId == GhostId + Cardinality(DOMAIN users \ DOMAIN InitUsers) + 1

SignupFind(r) ==
    /\ req[r].pc = "signup_find"
    /\ \E body \in SignupBodies :
         IF signupMissing(body)
         THEN Respond(r, 400, "validation")
         ELSE IF findByEmail(users, body.email) # {}
         THEN Respond(r, 400, "duplicate")
         ELSE req' = [req EXCEPT ![r] = [@ EXCEPT !.pc = "signup_save", !.doc = body]]
    /\ UNCHANGED <<users, jobs, apps, files>>

SignupSave(r) ==
    /\ req[r].pc = "signup_save"
    /\ LET newUser == NewUser(nextUserId, req[r].doc) IN
       IF ~userSchemaValid(newUser) \/ ~emailIndexAccepts(users, newUser)
       THEN /\ UNCHANGED users
            /\ Respond(r, 500, "handler")
       ELSE /\ Cardinality(DOMAIN users \ DOMAIN InitUsers) < MaxSignups
            /\ users' = [u \in DOMAIN users \cup {nextUserId} |->
                            IF u = nextUserId THEN newUser ELSE users[u]]
            /\ req' = [req EXCEPT ![r] =
                          [Answered(@, 200, "handler") EXCEPT !.id = nextUserId]]
    /\ UNCHANGED <<jobs, apps, files>>

\* ----------------------------------------------------------- POST /jobs
\* !title || !company || !location || !salaryRange || !description
createMissing(body) ==
    \E f \in requiredFields : f \notin DOMAIN body \/ body[f] = ""

\* A create that takes every path of the body.
createDocFromBody(body, user, n) ==
    [f \in DOMAIN NewJob(n, user._id.v) |->
        IF f \in DOMAIN body \ {"_id"} THEN castJob(f, body[f])
        ELSE NewJob(n, user._id.v)[f]]

\* Job.create({ title, company, location, salaryRange, description,
\* requirements, postedBy: req.user._id }): the schema's defaults fill the
\* rest.
createDoc(body, user, n) ==
    [f \in DOMAIN NewJob(n, user._id.v) |->
        IF f \in allowedFields /\ f \in DOMAIN body THEN castJob(f, body[f])
        ELSE NewJob(n, user._id.v)[f]]

\* The identifier of the next Job document: identifiers are never reused.
\* Requests address the postings of InitJobs only, so created ones stay.
nextJobId == Cardinality(DOMAIN InitJobs) + Cardinality(DOMAIN jobs \ DOMAIN InitJobs) + 1

JobCreate(r) ==
    /\ req[r].pc = "job_create"
    /\ \E body \in CreateBodies :
         IF createMissing(body)
         THEN /\ Respond(r, 400, "validation")
              /\ UNCHANGED jobs
         ELSE LET doc == createDoc(body, req[r].user, nextJobId) IN
              IF ~jobSchemaValid(doc)
              THEN /\ Respond(r, 500, "handler")
                   /\ UNCHANGED jobs
              ELSE /\ nextJobId <= MaxJobs
                   /\ jobs' = [j \in DOMAIN jobs \cup {nextJobId} |->
                                 IF j = nextJobId THEN doc ELSE jobs[j]]
                   /\ req' = [req EXCEPT ![r] =
                                 [Answered(@, 201, "handler") EXCEPT !.id = nextJobId]]
    /\ UNCHANGED <<users, apps, files>>

\* ------------------------------------------------------- GET /jobs/:id
\* if (!job) return res.status(400)...
fetchMissingStatus == 400

JobFetch(r) ==
    /\ req[r].pc = "fetch_find"
    /\ \E id \in JobIds :
         LET me == [req[r] EXCEPT !.id = id] IN
         IF id \notin DOMAIN jobs
         THEN req' = [req EXCEPT ![r] = Answered(me, fetchMissingStatus, "handler")]
         ELSE req' = [req EXCEPT ![r] = Answered(me, 200, "handler")]
    /\ UNCHANGED <<users, jobs, apps, files>>

\* ------------------------------------------------------- PUT /jobs/:id
\* if (job.postedBy.toString() !== req.user._id.toString() && role !== "admin")
updateDenied(job, user) ==
    StrictNeq(toString(job.postedBy), toString(user._id)) /\ user.role # "admin"

\* Object.assign(job, req.body): every path of the body is assigned.
updateAssignAll(body) == [f \in DOMAIN body |-> castJob(f, body[f])]

\* allowedFields.forEach: the paths the handler assigns, with their values.
updateAssign(body) ==
    [f \in allowedFields \cap DOMAIN body |-> castJob(f, body[f])]

\* job.save() / application.save() / user.save(): the assigned paths are
\* written to the stored document.
Saved(stored, doc) ==
    [f \in DOMAIN stored |-> IF f \in DOMAIN doc THEN doc[f] ELSE stored[f]]

UpdateFind(r) ==
    /\ req[r].pc = "update_find"
    /\ \E id \in JobIds, body \in Bodies :
         LET me == [req[r] EXCEPT !.id = id] IN
         IF id \notin DOMAIN jobs
         THEN req' = [req EXCEPT ![r] = Answered(me, 404, "handler")]
         ELSE IF updateDenied(jobs[id], req[r].user)
         THEN req' = [req EXCEPT ![r] = Answered(me, 403, "ownership")]
         ELSE req' = [req EXCEPT ![r] = [me EXCEPT !.pc = "update_save", !.doc = updateAssign(body)]]
    /\ UNCHANGED <<users, jobs, apps, files>>

\* error.message of the error job.save() throws.
saveErrorMessage(doc, stored) ==
    IF ~stored THEN "No document found for query"
    ELSE IF ~jobSchemaValid(doc) THEN "Job validation failed"
    ELSE "none"

\* A save that reads the caller's account again and refuses a blocked one.
UpdateSaveRechecks(r) ==
    /\ req[r].pc = "update_save"
    /\ IF findUser(Caller(r)).isBlocked
       THEN /\ UNCHANGED jobs
            /\ Respond(r, 403, "protect")
       ELSE IF saveErrorMessage(req[r].doc, req[r].id \in DOMAIN jobs) = "none"
       THEN /\ jobs' = [jobs EXCEPT ![req[r].id] = Saved(@, req[r].doc)]
            /\ Respond(r, 200, "handler")
       ELSE /\ UNCHANGED jobs
            /\ RespondError(r, saveErrorMessage(req[r].doc, req[r].id \in DOMAIN jobs))
    /\ UNCHANGED <<users, apps, files>>

UpdateSave(r) ==
    /\ req[r].pc = "update_save"
    /\ IF saveErrorMessage(req[r].doc, req[r].id \in DOMAIN jobs) = "none"
       THEN /\ jobs' = [jobs EXCEPT ![req[r].id] = Saved(@, req[r].doc)]
            /\ Respond(r, 200, "handler")
       ELSE /\ UNCHANGED jobs
            /\ RespondError(r, saveErrorMessage(req[r].doc, req[r].id \in DOMAIN jobs))
    /\ UNCHANGED <<users, apps, files>>

\* ---------------------------------------------------- DELETE /jobs/:id
\* if (job.postedBy.toString() !== req.user._id && role !== 'admin')
deleteDenied(job, user) ==
    StrictNeq(toString(job.postedBy), user._id) /\ user.role # "admin"

Without(f, k) == [x \in DOMAIN f \ {k} |-> f[x]]

DeleteFind(r) ==
    /\ req[r].pc = "delete_find"
    /\ \E id \in JobIds :
         LET me == [req[r] EXCEPT !.id = id] IN
         IF id \notin DOMAIN jobs
         THEN req' = [req EXCEPT ![r] = Answered(me, 404, "handler")]
         ELSE IF deleteDenied(jobs[id], req[r].user)
         THEN req' = [req EXCEPT ![r] = Answered(me, 403, "ownership")]
         ELSE req' = [req EXCEPT ![r] = [me EXCEPT !.pc = "delete_remove"]]
    /\ UNCHANGED <<users, jobs, apps, files>>

\* A delete that takes the posting's Applications with it.
cascadeApplications(coll, id) ==
    SelectSeq(coll, LAMBDA application : application.job # Oid(id))

\* What job.deleteOne() does to the Application collection: the Job schema
\* registers no middleware, so nothing.
keepApplications(coll, id) == coll

DeleteRemove(r) ==
    /\ req[r].pc = "delete_remove"
    /\ jobs' = Without(jobs, req[r].id)
    /\ apps' = keepApplications(apps, req[r].id)
    /\ Respond(r, 200, "handler")
    /\ UNCHANGED <<users, files>>

\* ------------------------------------------ PUT /admin/jobs/:id/approve
\* job.status = status
moderateAssign(status) == [status |-> status]

ModerateFind(r) ==
    /\ req[r].pc = "moderate_find"
    /\ \E id \in JobIds, status \in ModerationInputs :
         LET me == [req[r] EXCEPT !.id = id] IN
         IF id \notin DOMAIN jobs
         THEN req' = [req EXCEPT ![r] = Answered(me, 404, "handler")]
         ELSE req' = [req EXCEPT ![r] = [me EXCEPT !.pc = "moderate_save", !.doc = moderateAssign(status)]]
    /\ UNCHANGED <<users, jobs, apps, files>>

ModerateSave(r) ==
    /\ req[r].pc = "moderate_save"
    /\ IF jobSchemaValid(req[r].doc) /\ req[r].id \in DOMAIN jobs
       THEN /\ jobs' = [jobs EXCEPT ![req[r].id] = Saved(@, req[r].doc)]
            /\ Respond(r, 200, "handler")
       ELSE /\ UNCHANGED jobs
            /\ Respond(r, 500, "handler")
    /\ UNCHANGED <<users, apps, files>>

\* ----------------------------------------- PUT /admin/users/:id/toggle
\* user.isBlocked = !user.isBlocked
toggleAssign(user) == [isBlocked |-> ~user.isBlocked]

ToggleFindOf(r, ids) ==
    /\ req[r].pc = "toggle_find"
    /\ \E id \in ids :
         LET me == [req[r] EXCEPT !.id = id] IN
         IF id \notin DOMAIN users
         THEN req' = [req EXCEPT ![r] = Answered(me, 404, "handler")]
         ELSE req' = [req EXCEPT ![r] = [me EXCEPT !.pc = "toggle_save", !.doc = toggleAssign(users[id])]]
    /\ UNCHANGED <<users, jobs, apps, files>>

ToggleFind(r) == ToggleFindOf(r, SubjectIds)

ToggleSave(r) ==
    /\ req[r].pc = "toggle_save"
    /\ users' = [users EXCEPT ![req[r].id] = Saved(@, req[r].doc)]
    /\ Respond(r, 200, "handler")
    /\ UNCHANGED <<jobs, apps, files>>

\* -------------------------------------- GET /admin/users, GET /admin/stats
\* User.find()
ListUsers(r) ==
    /\ req[r].pc = "users_find"
    /\ Respond(r, 200, "handler")
    /\ UNCHANGED <<users, jobs, apps, files>>

\* The five countDocuments() of the statistics: they read, branch on nothing
\* and write nothing.
StatsCount(r) ==
    /\ req[r].pc = "stats_count"
    /\ Respond(r, 200, "handler")
    /\ UNCHANGED <<users, jobs, apps, files>>

\* ------------------------------------------- POST /applications/:id/apply
AppIds == 1 .. MaxApps

\* A lookup whose filter names the applicant by a path the documents lack.
findApplicationWrongPath(job, applicant) == {}

\* Application.findOne({ job, applicant })
findApplication(job, applicant) ==
    {i \in DOMAIN apps : apps[i].job = job /\ apps[i].applicant = applicant}

\* The insert of a new Application document: the collection carries no
\* uniqueness constraint on (job, applicant).
insertApplication(coll, doc) == Append(coll, doc)

\* upload.single("resume"): multer stores the attachment before the handler
\* runs; a rejected attachment ends the request in Express's error handler.
ApplyUploadAt(r, stamps) ==
    /\ req[r].pc = "apply_upload"
    /\ \E ext \in FileInputs, now \in stamps :
         IF ext = NoFile
         THEN /\ Goto(r, "apply_findJob")
              /\ UNCHANGED files
         ELSE IF ~fileFilter(ext)
         THEN /\ Respond(r, 500, "upload")
              /\ UNCHANGED files
         ELSE LET path == storedFilePath(now, ext) IN
              /\ files' = files \cup {PathResolve(cwd, path)}
              /\ req' = [req EXCEPT ![r] = [@ EXCEPT !.pc = "apply_findJob", !.file = path]]
    /\ UNCHANGED <<users, jobs, apps>>

ApplyUpload(r) == ApplyUploadAt(r, Stamps)

ApplyFindJob(r) ==
    /\ req[r].pc = "apply_findJob"
    /\ \E id \in JobIds :
         LET me == [req[r] EXCEPT !.id = id] IN
         IF id \notin DOMAIN jobs
         THEN req' = [req EXCEPT ![r] = Answered(me, 404, "handler")]
         ELSE req' = [req EXCEPT ![r] = [me EXCEPT !.pc = "apply_findOne"]]
    /\ UNCHANGED <<users, jobs, apps, files>>

ApplyFindOne(r) ==
    /\ req[r].pc = "apply_findOne"
    /\ IF findApplication(Oid(req[r].id), req[r].user._id) # {}
       THEN Respond(r, 400, "duplicate")
       ELSE IF req[r].file = NoFile
       THEN Respond(r, 400, "validation")
       ELSE Goto(r, "apply_save")
    /\ UNCHANGED <<users, jobs, apps, files>>

ApplySave(r) ==
    /\ req[r].pc = "apply_save"
    /\ Len(apps) < MaxApps
    /\ apps' = insertApplication(apps,
                   NewApplication(Oid(req[r].id), req[r].user._id, req[r].file))
    /\ Respond(r, 200, "handler")
    /\ UNCHANGED <<users, jobs, files>>

\* --------------------------------------- GET /applications/:id/applicants
\* if (role === 'recruiter' && job.postedBy.toString() !== req.user._id.toString())
applicantsDenied(job, user) ==
    user.role = "recruiter" /\ StrictNeq(toString(job.postedBy), toString(user._id))

ApplicantsFindJob(r) ==
    /\ req[r].pc = "applicants_findJob"
    /\ \E id \in JobIds :
         LET me == [req[r] EXCEPT !.id = id] IN
         IF id \notin DOMAIN jobs
         THEN req' = [req EXCEPT ![r] = Answered(me, 404, "handler")]
         ELSE IF applicantsDenied(jobs[id], req[r].user)
         THEN req' = [req EXCEPT ![r] = Answered(me, 403, "ownership")]
         ELSE req' = [req EXCEPT ![r] = [me EXCEPT !.pc = "applicants_find"]]
    /\ UNCHANGED <<users, jobs, apps, files>>

ApplicantsFind(r) ==
    /\ req[r].pc = "applicants_find"
    /\ Respond(r, 200, "handler")
    /\ UNCHANGED <<users, jobs, apps, files>>

\* ------------------------------------------- PUT /applications/:id/status
NoJob == [postedBy |-> Oid(0)]

\* .populate('job'): the application with its job reference replaced by the
\* referenced posting, or by null (NoJob) when the posting is gone.
populateJob(application) ==
    [application EXCEPT !.job =
        IF application.job.v \in DOMAIN jobs THEN jobs[application.job.v] ELSE NoJob]

\* The ownership check made against the application's applicant.
statusDeniedByApplicant(application, user) ==
    user.role = "recruiter"
    /\ StrictNeq(toString(application.applicant), toString(user._id))

\* if (role === 'recruiter' &&
\*     application.job.postedBy.toString() !== req.user._id.toString())
statusDenied(application, user) ==
    user.role = "recruiter"
    /\ StrictNeq(toString(application.job.postedBy), toString(user._id))

\* An ownership check that reads the owner through optional chaining.
statusNeverThrows(application, user) == FALSE

\* application.job.postedBy with application.job null: the right operand of
\* the && is evaluated for a recruiter only, and throws a TypeError.
statusThrows(application, user) ==
    user.role = "recruiter" /\ application.job = NoJob

\* application.status = status
statusAssign(status) == [status |-> status]

StatusFind(r) ==
    /\ req[r].pc = "status_find"
    /\ \E id \in AppIds, status \in StatusInputs :
         LET me == [req[r] EXCEPT !.id = id] IN
         IF id \notin DOMAIN apps
         THEN req' = [req EXCEPT ![r] = Answered(me, 404, "handler")]
         ELSE LET application == populateJob(apps[id]) IN
              IF statusThrows(application, req[r].user)
              THEN req' = [req EXCEPT ![r] = Answered(me, 500, "handler")]
              ELSE IF statusDenied(application, req[r].user)
              THEN req' = [req EXCEPT ![r] = Answered(me, 403, "ownership")]
              ELSE req' = [req EXCEPT ![r] = [me EXCEPT !.pc = "status_save", !.doc = statusAssign(status)]]
    /\ UNCHANGED <<users, jobs, apps, files>>

StatusSave(r) ==
    /\ req[r].pc = "status_save"
    /\ IF applicationSchemaValid(req[r].doc)
       THEN /\ apps' = [apps EXCEPT ![req[r].id] = Saved(@, req[r].doc)]
            /\ Respond(r, 200, "handler")
       ELSE /\ UNCHANGED apps
            /\ Respond(r, 500, "handler")
    /\ UNCHANGED <<users, jobs, files>>

\* ------------------------------------------- GET /applications/:id/resume
\* path.resolve(process.cwd(), application.resumeUrl || '')
resumePathOf(application) == PathResolve(cwd, application.resumeUrl)

\* resumePath.startsWith(path.resolve(process.cwd(), 'uploads'))
insideUploads(resumePath) == StartsWith(resumePath, PathResolve(cwd, uploadsName))

ResumeFind(r) ==
    /\ req[r].pc = "resume_find"
    /\ \E id \in AppIds :
         LET me == [req[r] EXCEPT !.id = id] IN
         IF id \notin DOMAIN apps
         THEN req' = [req EXCEPT ![r] = Answered(me, 404, "handler")]
         ELSE LET resumePath == resumePathOf(apps[id]) IN
              IF ~insideUploads(resumePath)
              THEN req' = [req EXCEPT ![r] = Answered(me, 400, "guard")]
              ELSE IF resumePath \notin files
              THEN req' = [req EXCEPT ![r] = Answered(me, 404, "existsSync")]
              ELSE req' = [req EXCEPT ![r] = Answered(me, 200, "sendFile")]
    /\ UNCHANGED <<users, jobs, apps, files>>

\* ------------------------------------------------------- PUT /profile/me
\* Request bodies of PUT /profile/me: profile paths, and paths of the account
\* itself.
MeBodies == { [bio |-> "B", role |-> "admin", isBlocked |-> TRUE] }

\* The body cast to the schema's profile object: the paths the schema does
\* not declare there are dropped, those the body lacks are not set.
castProfile(body) ==
    [f \in profileFields |-> IF f \in DOMAIN body THEN body[f] ELSE NoProfile[f]]

\* An update that sets the body's paths on the account itself.
meSetTopLevel(stored, body) ==
    [f \in DOMAIN stored |-> IF f \in DOMAIN body THEN body[f] ELSE stored[f]]

\* { $set: { profile: updates } }
meSet(stored, body) == [stored EXCEPT !.profile = castProfile(body)]

\* User.findByIdAndUpdate(req.user._id, ...): one storage operation.
MeUpdate(r) ==
    /\ req[r].pc = "me_update"
    /\ \E body \in MeBodies :
         IF Caller(r) \in DOMAIN users
         THEN users' = [users EXCEPT ![Caller(r)] = meSet(@, body)]
         ELSE UNCHANGED users
    /\ Respond(r, 200, "handler")
    /\ UNCHANGED <<jobs, apps, files>>

\* --------------------------------------------------- PUT /profile/update
\* Request bodies of PUT /profile/update.
UpdateProfileBodies ==
    { [name |-> "M", skills |-> "a, b", role |-> "admin", isBlocked |-> TRUE,
       email |-> "u4@x", companyLogo |-> "L"],
      [name |-> " ", role |-> "admin"] }

\* updates.skills.split(',').map(s => s.trim()).filter(Boolean)
splitSkills(v) == IF v = "a, b" THEN <<"a", "b">> ELSE <<v>>

\* The profile paths the handler assigns when the body defines them.
profileUpdatable ==
    {"skills", "experience", "bio", "companyName", "website", "description"}

\* The paths the handler assigns: name on the account, the rest under
\* profile.
profileAssign(body) ==
    [top |-> [f \in {"name"} \cap DOMAIN body |-> Trim(body[f])],
     profile |-> [f \in profileUpdatable \cap DOMAIN body |->
                    IF f = "skills" THEN splitSkills(body[f]) ELSE body[f]]]

\* Validation of the assigned paths before user.save(): name is required.
accountSchemaValid(doc) == "name" \in DOMAIN doc.top => doc.top["name"] # ""

\* user.save(): the assigned paths are written, those under profile one by
\* one.
SavedUser(stored, doc) ==
    [f \in DOMAIN stored |->
        IF f \in DOMAIN doc.top THEN doc.top[f]
        ELSE IF f = "profile" THEN Saved(stored.profile, doc.profile)
        ELSE stored[f]]

ProfileFind(r) ==
    /\ req[r].pc = "profile_find"
    /\ \E body \in UpdateProfileBodies :
         IF findUser(Caller(r)) = NoUser
         THEN Respond(r, 404, "handler")
         ELSE req' = [req EXCEPT ![r] =
                         [@ EXCEPT !.pc = "profile_save", !.doc = profileAssign(body)]]
    /\ UNCHANGED <<users, jobs, apps, files>>

\* user.save() of the three profile handlers.
ProfileSave(r) ==
    /\ req[r].pc = "profile_save"
    /\ IF accountSchemaValid(req[r].doc) /\ Caller(r) \in DOMAIN users
       THEN /\ users' = [users EXCEPT ![Caller(r)] = SavedUser(@, req[r].doc)]
            /\ Respond(r, 200, "handler")
       ELSE /\ UNCHANGED users
            /\ Respond(r, 500, "handler")
    /\ UNCHANGED <<jobs, apps, files>>

\* --------------------------- POST /profile/upload, POST /profile/upload-logo
\* upload.single("resume") / uploadLogo.single("logo"): multer stores the
\* attachment before the handler runs.
UploadStore(r) ==
    /\ req[r].pc \in {"upload_store", "logo_store"}
    /\ LET logo == req[r].pc = "logo_store" IN
       \E ext \in (IF logo THEN LogoInputs ELSE FileInputs), now \in Stamps :
         LET accepted == IF logo THEN logoFileFilter(ext) ELSE fileFilter(ext)
             path == IF logo THEN storedLogoPath(now, ext) ELSE storedFilePath(now, ext)
         IN IF ext = NoFile
            THEN /\ Goto(r, "upload_find")
                 /\ UNCHANGED files
            ELSE IF ~accepted
            THEN /\ Respond(r, 500, "upload")
                 /\ UNCHANGED files
            ELSE /\ files' = files \cup {PathResolve(cwd, path)}
                 /\ req' = [req EXCEPT ![r] =
                               [@ EXCEPT !.pc = "upload_find", !.file = path]]
    /\ UNCHANGED <<users, jobs, apps>>

\* user.profile.resumeUrl = req.file.path / user.profile.companyLogo = ...
uploadAssign(op, path) ==
    [top |-> [f \in {} |-> ""],
     profile |-> [f \in {IF op = "profileLogo" THEN "companyLogo" ELSE "resumeUrl"} |-> path]]

UploadFind(r) ==
    /\ req[r].pc = "upload_find"
    /\ IF req[r].file = NoFile
       THEN Respond(r, 400, "validation")
       ELSE IF findUser(Caller(r)) = NoUser
       THEN Respond(r, 404, "handler")
       ELSE req' = [req EXCEPT ![r] =
                       [@ EXCEPT !.pc = "profile_save",
                                 !.doc = uploadAssign(req[r].op, req[r].file)]]
    /\ UNCHANGED <<users, jobs, apps, files>>

\* ---------------------------------------------------------- specification
Next ==
    \/ \E r \in Reqs : Arrive(r, Ops \ {"signup"})
    \/ \E r \in Reqs : SignupArrive(r)
    \/ \E r \in Reqs : SignupFind(r)
    \/ \E r \in Reqs : SignupSave(r)
    \/ \E r \in Reqs : JobCreate(r)
    \/ \E r \in Reqs : JobFetch(r)
    \/ \E r \in Reqs : UpdateFind(r)
    \/ \E r \in Reqs : UpdateSave(r)
    \/ \E r \in Reqs : DeleteFind(r)
    \/ \E r \in Reqs : DeleteRemove(r)
    \/ \E r \in Reqs : ModerateFind(r)
    \/ \E r \in Reqs : ModerateSave(r)
    \/ \E r \in Reqs : ToggleFind(r)
    \/ \E r \in Reqs : ToggleSave(r)
    \/ \E r \in Reqs : ApplyUpload(r)
    \/ \E r \in Reqs : ApplyFindJob(r)
    \/ \E r \in Reqs : ApplyFindOne(r)
    \/ \E r \in Reqs : ApplySave(r)
    \/ \E r \in Reqs : ApplicantsFindJob(r)
    \/ \E r \in Reqs : ApplicantsFind(r)
    \/ \E r \in Reqs : StatusFind(r)
    \/ \E r \in Reqs : StatusSave(r)
    \/ \E r \in Reqs : ResumeFind(r)
    \/ \E r \in Reqs : MeUpdate(r)
    \/ \E r \in Reqs : ProfileFind(r)
    \/ \E r \in Reqs : ProfileSave(r)
    \/ \E r \in Reqs : UploadStore(r)
    \/ \E r \in Reqs : UploadFind(r)
    \/ \E r \in Reqs : ListUsers(r)
    \/ \E r \in Reqs : StatsCount(r)
    \/ \E r \in Reqs : Finish(r)

Spec == Init /\ [][Next]_vars

\* The same system with only some of its routers receiving traffic.
JobNext ==
    \/ \E r \in Reqs : Arrive(r, {"jobUpdate", "jobDelete", "moderate"})
    \/ \E r \in Reqs : Finish(r)
    \/ \E r \in Reqs : UpdateFind(r)
    \/ \E r \in Reqs : UpdateSave(r)
    \/ \E r \in Reqs : DeleteFind(r)
    \/ \E r \in Reqs : DeleteRemove(r)
    \/ \E r \in Reqs : ModerateFind(r)
    \/ \E r \in Reqs : ModerateSave(r)

JobSpec == Init /\ [][JobNext]_vars

ApplyRoutes == {"apply", "jobDelete"}

ApplyNext ==
    \/ \E r \in Reqs : Arrive(r, ApplyRoutes)
    \/ \E r \in Reqs : Finish(r)
    \/ \E r \in Reqs : ApplyUpload(r)
    \/ \E r \in Reqs : ApplyFindJob(r)
    \/ \E r \in Reqs : ApplyFindOne(r)
    \/ \E r \in Reqs : ApplySave(r)
    \/ \E r \in Reqs : DeleteFind(r)
    \/ \E r \in Reqs : DeleteRemove(r)

ApplySpec == Init /\ [][ApplyNext]_vars

ReviewNext ==
    \/ \E r \in Reqs : Arrive(r, {"apply", "applicants", "status"})
    \/ \E r \in Reqs : Finish(r)
    \/ \E r \in Reqs : ApplyUpload(r)
    \/ \E r \in Reqs : ApplyFindJob(r)
    \/ \E r \in Reqs : ApplyFindOne(r)
    \/ \E r \in Reqs : ApplySave(r)
    \/ \E r \in Reqs : ApplicantsFindJob(r)
    \/ \E r \in Reqs : ApplicantsFind(r)
    \/ \E r \in Reqs : StatusFind(r)
    \/ \E r \in Reqs : StatusSave(r)

ReviewSpec == Init /\ [][ReviewNext]_vars

AccessNext ==
    \/ \E r \in Reqs : Arrive(r, {"toggle", "applicants"})
    \/ \E r \in Reqs : Finish(r)
    \/ \E r \in Reqs : ToggleFind(r)
    \/ \E r \in Reqs : ToggleSave(r)
    \/ \E r \in Reqs : ApplicantsFindJob(r)
    \/ \E r \in Reqs : ApplicantsFind(r)

AccessSpec == Init /\ [][AccessNext]_vars

CreateNext ==
    \/ \E r \in Reqs : Arrive(r, {"jobCreate", "jobDelete"})
    \/ \E r \in Reqs : Finish(r)
    \/ \E r \in Reqs : JobCreate(r)
    \/ \E r \in Reqs : DeleteFind(r)
    \/ \E r \in Reqs : DeleteRemove(r)

CreateSpec == Init /\ [][CreateNext]_vars

FetchNext ==
    \/ \E r \in Reqs : Arrive(r, {"jobFetch", "jobUpdate", "jobDelete"})
    \/ \E r \in Reqs : Finish(r)
    \/ \E r \in Reqs : JobFetch(r)
    \/ \E r \in Reqs : UpdateFind(r)
    \/ \E r \in Reqs : UpdateSave(r)
    \/ \E r \in Reqs : DeleteFind(r)
    \/ \E r \in Reqs : DeleteRemove(r)

FetchSpec == Init /\ [][FetchNext]_vars

SignupNext ==
    \/ \E r \in Reqs : SignupArrive(r)
    \/ \E r \in Reqs : Finish(r)
    \/ \E r \in Reqs : SignupFind(r)
    \/ \E r \in Reqs : SignupSave(r)

SignupSpec == Init /\ [][SignupNext]_vars

\* The profile routes called by one recruiter while the admin toggles
\* accounts.
ProfileNext ==
    \/ \E r \in Reqs : ArriveWith(r, TokensOf(2) \cup {NoToken}, ProtectOnly)
    \/ \E r \in Reqs : ArriveWith(r, TokensOf(4), {"toggle"})
    \/ \E r \in Reqs : Finish(r)
    \/ \E r \in Reqs : MeUpdate(r)
    \/ \E r \in Reqs : ProfileFind(r)
    \/ \E r \in Reqs : ProfileSave(r)
    \/ \E r \in Reqs : UploadStore(r)
    \/ \E r \in Reqs : UploadFind(r)
    \/ \E r \in Reqs : ToggleFind(r)
    \/ \E r \in Reqs : ToggleSave(r)

ProfileSpec == Init /\ [][ProfileNext]_vars

\* Signup, and the admin-only routes and the delete route called with the
\* tokens signup issues.
AdminOnly == {"listUsers", "toggle", "moderate", "stats"}

\* One client: it signs up, then sends requests with the token it got.
IssuedReqs == {1}

IssuedNext ==
    \/ \E r \in IssuedReqs : SignupArrive(r)
    \/ \E r \in IssuedReqs : SignupFind(r)
    \/ \E r \in IssuedReqs : SignupSave(r)
    \/ \E r \in IssuedReqs : ArriveWith(r, IssuedTokens, AdminOnly \cup {"jobDelete"})
    \/ \E r \in IssuedReqs : Finish(r)
    \/ \E r \in IssuedReqs : ListUsers(r)
    \/ \E r \in IssuedReqs : StatsCount(r)
    \/ \E r \in IssuedReqs : ToggleFind(r)
    \/ \E r \in IssuedReqs : ToggleSave(r)
    \/ \E r \in IssuedReqs : ModerateFind(r)
    \/ \E r \in IssuedReqs : ModerateSave(r)
    \/ \E r \in IssuedReqs : DeleteFind(r)
    \/ \E r \in IssuedReqs : DeleteRemove(r)

IssuedSpec == Init /\ [][IssuedNext]_vars

\* Deletes and status updates over a store that holds the application of
\* the applicant to each posting, as two applies leave it.
OrphanInit ==
    /\ users = InitUsers
    /\ jobs = InitJobs
    /\ apps = [i \in JobIds |-> NewApplication(Oid(i), Oid(1), storedFilePath(1, PDF))]
    /\ files = {PathResolve(cwd, storedFilePath(1, PDF))}
    /\ req = [r \in Reqs |-> Idle]

OrphanNext ==
    \/ \E r \in Reqs : Arrive(r, {"jobDelete", "status"})
    \/ \E r \in Reqs : Finish(r)
    \/ \E r \in Reqs : DeleteFind(r)
    \/ \E r \in Reqs : DeleteRemove(r)
    \/ \E r \in Reqs : StatusFind(r)
    \/ \E r \in Reqs : StatusSave(r)

OrphanSpec == OrphanInit /\ [][OrphanNext]_vars

\* Applies, and retrievals of the resumes they stored.
ResumeNext ==
    \/ \E r \in Reqs : Arrive(r, {"apply", "resume"})
    \/ \E r \in Reqs : Finish(r)
    \/ \E r \in Reqs : ApplyUpload(r)
    \/ \E r \in Reqs : ApplyFindJob(r)
    \/ \E r \in Reqs : ApplyFindOne(r)
    \/ \E r \in Reqs : ApplySave(r)
    \/ \E r \in Reqs : ResumeFind(r)

ResumeSpec == Init /\ [][ResumeNext]_vars

\* Applies and deletes, with uploads stored at two different times.
Clock == {1, 2}

LeftoverNext ==
    \/ \E r \in Reqs : Arrive(r, ApplyRoutes)
    \/ \E r \in Reqs : Finish(r)
    \/ \E r \in Reqs : ApplyUploadAt(r, Clock)
    \/ \E r \in Reqs : ApplyFindJob(r)
    \/ \E r \in Reqs : ApplyFindOne(r)
    \/ \E r \in Reqs : ApplySave(r)
    \/ \E r \in Reqs : DeleteFind(r)
    \/ \E r \in Reqs : DeleteRemove(r)

LeftoverSpec == Init /\ [][LeftoverNext]_vars

\* A store in which the applicant has applied to the first posting.
RaceInit ==
    /\ users = InitUsers
    /\ jobs = InitJobs
    /\ apps = <<NewApplication(Oid(1), Oid(1), storedFilePath(1, PDF))>>
    /\ files = {PathResolve(cwd, storedFilePath(1, PDF))}
    /\ req = [r \in Reqs |-> Idle]

\* The writing routes called on one connection, by the applicant, by a
\* recruiter and (the delete, which lets no recruiter through) by the
\* admin, while on the other connection the admin toggles these accounts.
Writers == {1}
Toggled == {1, 2, 4}

RaceNext ==
    \/ \E r \in Writers : ArriveWith(r, TokensOf(1), {"apply"})
    \/ \E r \in Writers :
         ArriveWith(r, TokensOf(2), {"jobCreate", "jobUpdate", "status", "profileUpdate"})
    \/ \E r \in Writers : ArriveWith(r, TokensOf(4), {"jobDelete"})
    \/ \E r \in Reqs \ Writers : ArriveWith(r, TokensOf(4), {"toggle"})
    \/ \E r \in Reqs : Finish(r)
    \/ \E r \in Reqs : ToggleFindOf(r, Toggled)
    \/ \E r \in Reqs : ToggleSave(r)
    \/ \E r \in Reqs : ApplyUpload(r)
    \/ \E r \in Reqs : ApplyFindJob(r)
    \/ \E r \in Reqs : ApplyFindOne(r)
    \/ \E r \in Reqs : ApplySave(r)
    \/ \E r \in Reqs : JobCreate(r)
    \/ \E r \in Reqs : UpdateFind(r)
    \/ \E r \in Reqs : UpdateSave(r)
    \/ \E r \in Reqs : DeleteFind(r)
    \/ \E r \in Reqs : DeleteRemove(r)
    \/ \E r \in Reqs : StatusFind(r)
    \/ \E r \in Reqs : StatusSave(r)
    \/ \E r \in Reqs : ProfileFind(r)
    \/ \E r \in Reqs : ProfileSave(r)

RaceSpec == RaceInit /\ [][RaceNext]_vars

\* Resume retrieval over a store whose Application carries any reference:
\* references were once persisted verbatim from the request body.
SegNames ==
    { uploadsName, uploadsName \o <<"2">>, <<".", ".">>,
      <<"r", "e", "s", "u", "m", "e", "s">>, <<"s">> }

RECURSIVE JoinRel(_)
JoinRel(segs) ==
    IF segs = <<>> THEN <<>>
    ELSE IF Len(segs) = 1 THEN Head(segs)
    ELSE Head(segs) \o <<"/">> \o JoinRel(Tail(segs))

StoredRefs == {JoinRel(p) : p \in UNION {[1 .. n -> SegNames] : n \in 0 .. MaxSegs}}

GuardInit ==
    /\ users = InitUsers
    /\ jobs = InitJobs
    /\ \E ref \in StoredRefs :
         /\ apps = <<NewApplication(Oid(1), Oid(1), ref)>>
         /\ files \in {{}, {PathResolve(cwd, ref)}}
    /\ req = [r \in Reqs |-> Idle]

\* The route only reads: its requests do not affect one another, and one
\* connection shows all it does.
GuardReqs == {1}

GuardNext ==
    \/ \E r \in GuardReqs : Arrive(r, {"resume"})
    \/ \E r \in GuardReqs : Finish(r)
    \/ \E r \in GuardReqs : ResumeFind(r)

GuardSpec == GuardInit /\ [][GuardNext]_vars

\* ================================================================= claims
Stepped(r) == req'[r] # req[r]
Arrived(r) == req[r].pc = "idle" /\ req'[r].pc # "idle"

\* ----------------------------------------------------------------------
\* C1: a request that carries a verified token of an account whose stored
\* isBlocked flag is true when protect looks it up is answered 403 by
\* protect and enters no handler, whatever the route and however long ago
\* the token was issued.
C1_BlockedIsForbidden ==
    [][\A r \in Reqs :
         (/\ Arrived(r)
          /\ req'[r].user # NoUser
          /\ users[req'[r].user._id.v].isBlocked)
         => (/\ req'[r].pc = "done"
             /\ req'[r].resp = 403
             /\ req'[r].by = "protect")]_vars

\* An admin toggle has blocked an account and a request of that account was
\* answered 403 by protect.
C1_Witness ==
    \E r \in Reqs :
        /\ req[r].pc = "done" /\ req[r].by = "protect" /\ req[r].resp = 403
        /\ req[r].user # NoUser
        /\ users[Caller(r)].isBlocked

\* ----------------------------------------------------------------------
\* C2: at most one Application exists for each (job, applicant) pair, in
\* every reachable state, also when two apply requests for the pair
\* interleave their lookup and their insert.
C2_OneApplicationPerPair ==
    \A i, j \in DOMAIN apps :
        (apps[i].job = apps[j].job /\ apps[i].applicant = apps[j].applicant) => i = j

\* ----------------------------------------------------------------------
\* C3: an apply whose duplicate lookup runs after the applicant's earlier
\* apply to the same job was stored is answered 400 and stores nothing; an
\* apply with an attachment whose lookup finds nothing goes on to its insert,
\* and the insert answers 200 and adds one Application of that job and
\* applicant with status applied, leaving the others as they were.
HasApplied(job, applicant) ==
    \E i \in DOMAIN apps : apps[i].job = Oid(job) /\ apps[i].applicant = applicant

C3_SecondApplyConflicts ==
    [][\A r \in Reqs :
         /\ (req[r].pc = "apply_findOne" /\ Stepped(r)) =>
              IF HasApplied(req[r].id, req[r].user._id)
              THEN /\ req'[r].pc = "done" /\ req'[r].resp = 400
                   /\ req'[r].by = "duplicate"
                   /\ apps' = apps
              ELSE req[r].file # NoFile => req'[r].pc = "apply_save"
         /\ (req[r].pc = "apply_save" /\ Stepped(r)) =>
              /\ req'[r].pc = "done" /\ req'[r].resp = 200
              /\ Len(apps') = Len(apps) + 1
              /\ SubSeq(apps', 1, Len(apps)) = apps
              /\ apps'[Len(apps')].job = Oid(req[r].id)
              /\ apps'[Len(apps')].applicant = req[r].user._id
              /\ apps'[Len(apps')].status = "applied"]_vars

\* The applicant's first apply was stored and a second one to the same job
\* was answered 400 as a duplicate.
C3_Witness ==
    \E r \in Reqs :
        /\ req[r].pc = "done" /\ req[r].op = "apply"
        /\ req[r].resp = 400 /\ req[r].by = "duplicate"
        /\ Len(apps) = 1
        /\ apps[1].job = Oid(req[r].id) /\ apps[1].applicant = req[r].user._id
        /\ apps[1].status = "applied"

\* ----------------------------------------------------------------------
\* C4: no step of a PUT /jobs/:id request changes the owner, the listing
\* status, the identifier or the posting date of any posting, also when the
\* body names them.
frozenFields == {"postedBy", "status", "_id", "datePosted"}

C4_UpdateKeepsFrozenFields ==
    [][\A r \in Reqs :
         (req[r].op = "jobUpdate" /\ Stepped(r)) =>
            /\ DOMAIN jobs' = DOMAIN jobs
            /\ \A j \in DOMAIN jobs : \A f \in frozenFields : jobs'[j][f] = jobs[j][f]]_vars

\* An update whose body also named owner, status, date and identifier was
\* saved: the title is the body's, the other four are the original ones.
C4_Witness ==
    \E j \in DOMAIN jobs :
        /\ jobs[j].title = "T2"
        /\ \A f \in frozenFields : jobs[j][f] = InitJobs[j][f]
        /\ \E r \in Reqs : req[r].pc = "done" /\ req[r].op = "jobUpdate" /\ req[r].resp = 200

\* ----------------------------------------------------------------------
\* C5: whenever resume retrieval gets as far as the file-existence check or
\* serves the file, the resolved path is the uploads directory or lies
\* under it; a sibling whose name merely begins with "uploads" does not.
trustedRoot == PathResolve(cwd, uploadsName)
Contained(path) == path = trustedRoot \/ StartsWith(path, trustedRoot \o <<"/">>)

C5_ServedPathsAreContained ==
    \A r \in Reqs :
        (/\ req[r].pc = "done" /\ req[r].op = "resume"
         /\ req[r].by \in {"existsSync", "sendFile"})
        => Contained(resumePathOf(apps[req[r].id]))

\* ----------------------------------------------------------------------
\* C6: a resume retrieval by a recruiter or admin for an existing
\* Application whose reference resolves outside the uploads directory is
\* answered 400 by the path check, whether or not a file is there.
C6_EscapeIsInvalidPath ==
    \A r \in Reqs :
        (/\ req[r].pc = "done" /\ req[r].op = "resume"
         /\ req[r].by \in {"guard", "existsSync", "sendFile"}
         /\ ~Contained(resumePathOf(apps[req[r].id])))
        => (req[r].resp = 400 /\ req[r].by = "guard")

\* ----------------------------------------------------------------------
\* C7: for an Application of an existing job, and for an existing job's
\* applicant list: a recruiter who does not own the job is answered 403 and
\* no Application changes; the owner and every admin pass, the list is
\* answered 200 and a status of the schema is stored with 200.
OwnsOrAdmin(user, job) == user.role = "admin" \/ user._id = job.postedBy

C7_OwnershipOfTheJobDecides ==
    [][\A r \in Reqs :
         /\ (/\ req[r].pc = "status_find" /\ Stepped(r)
             /\ req'[r].id \in DOMAIN apps
             /\ apps[req'[r].id].job.v \in DOMAIN jobs) =>
              IF OwnsOrAdmin(req[r].user, jobs[apps[req'[r].id].job.v])
              THEN req'[r].pc = "status_save"
              ELSE /\ req'[r].pc = "done" /\ req'[r].resp = 403
                   /\ apps' = apps
         /\ (/\ req[r].pc = "status_save" /\ Stepped(r)
             /\ req[r].doc.status \in applicationStatusEnum) =>
              /\ req'[r].pc = "done" /\ req'[r].resp = 200
              /\ apps'[req[r].id].status = req[r].doc.status
         /\ (/\ req[r].pc = "applicants_findJob" /\ Stepped(r)
             /\ req'[r].id \in DOMAIN jobs) =>
              IF OwnsOrAdmin(req[r].user, jobs[req'[r].id])
              THEN req'[r].pc = "applicants_find"
              ELSE /\ req'[r].pc = "done" /\ req'[r].resp = 403
                   /\ apps' = apps
         /\ (req[r].pc = "applicants_find" /\ Stepped(r)) =>
              (req'[r].pc = "done" /\ req'[r].resp = 200 /\ apps' = apps)]_vars

\* A recruiter who does not own the job was refused a status change, and
\* the owner or an admin has shortlisted an Application.
C7_Witness ==
    /\ \E r \in Reqs :
         /\ req[r].pc = "done" /\ req[r].op = "status"
         /\ req[r].resp = 403 /\ req[r].by = "ownership"
         /\ req[r].user.role = "recruiter"
         /\ req[r].user._id # jobs[apps[req[r].id].job.v].postedBy
    /\ \E i \in DOMAIN apps : apps[i].status = "shortlisted"

\* ----------------------------------------------------------------------
\* C8: DELETE /jobs/:id on an existing job goes on to remove it exactly when
\* the caller is the job's owner or an admin; anyone else is answered 403.
C8_DeleteGate ==
    [][\A r \in Reqs :
         (/\ req[r].pc = "delete_find" /\ Stepped(r)
          /\ req'[r].id \in DOMAIN jobs) =>
            IF OwnsOrAdmin(req[r].user, jobs[req'[r].id])
            THEN req'[r].pc = "delete_remove"
            ELSE req'[r].pc = "done" /\ req'[r].resp = 403 /\ jobs' = jobs]_vars

\* ----------------------------------------------------------------------
\* C9: when an admin's moderation of a job that still exists is saved with
\* status approved or rejected, the answer is 200 and the stored status is
\* the supplied one.
C9_ModerationIsStored ==
    [][\A r \in Reqs :
         (/\ req[r].pc = "moderate_save" /\ Stepped(r)
          /\ req[r].id \in DOMAIN jobs
          /\ req[r].doc.status \in {"approved", "rejected"}) =>
            /\ req'[r].resp = 200
            /\ jobs'[req[r].id].status = req[r].doc.status]_vars

\* ----------------------------------------------------------------------
\* C10: what protect and authorize do with a verified token of an existing
\* account is the same for every role the token could declare, the account
\* the handlers see is the stored one, and the ownership check of the
\* applicant list is decided by the stored account's role and id.
Declaring(id, role) == [bearer |-> TRUE, verifies |-> TRUE, id |-> id, role |-> role]
Undeclared(me) == [me EXCEPT !.claimed = "none"]

C10_DeclaredRoleIsIgnored ==
    [][\A r \in Reqs :
         /\ (Arrived(r) /\ req'[r].user # NoUser) =>
              /\ req'[r].user = reqUser(users[req'[r].user._id.v])
              /\ \A d \in Roles :
                    Undeclared(ArriveResult(Declaring(req'[r].user._id.v, d), req'[r].op))
                      = Undeclared(req'[r])
         /\ (/\ req[r].pc = "applicants_findJob" /\ Stepped(r)
             /\ req'[r].id \in DOMAIN jobs) =>
              ((req'[r].by = "ownership")
                 <=> ~OwnsOrAdmin(users[Caller(r)], jobs[req'[r].id]))]_vars

\* A token that declares admin for an account stored as applicant was
\* refused by authorize on the admin-only toggle route.
C10_Witness ==
    \E r \in Reqs :
        /\ req[r].pc = "done" /\ req[r].op = "toggle"
        /\ req[r].by = "authorize" /\ req[r].resp = 403
        /\ req[r].claimed = "admin"
        /\ users[Caller(r)].role = "applicant"

\* ----------------------------------------------------------------------
\* C11: a request without a bearer token, with a token that does not verify,
\* or with a verified token whose subject has no stored account, is answered
\* 401 by protect (not the 403 of a blocked account), enters no handler and
\* changes nothing that is stored.
C11_UnauthenticatedIs401 ==
    [][\A r \in Reqs :
         (Arrived(r) /\ req'[r].user = NoUser) =>
            /\ req'[r].pc = "done"
            /\ req'[r].resp = 401
            /\ req'[r].by = "protect"
            /\ <<users, jobs, apps, files>>' = <<users, jobs, apps, files>>]_vars

\* One request with a verified token of a missing account and one without a
\* usable token were both answered 401 by protect.
C11_Witness ==
    \E r, q \in Reqs :
        /\ req[r].pc = "done" /\ req[r].by = "protect" /\ req[r].resp = 401
        /\ req[r].user = NoUser /\ req[r].claimed = "admin"
        /\ req[q].pc = "done" /\ req[q].by = "protect" /\ req[q].resp = 401
        /\ req[q].user = NoUser /\ req[q].claimed = "none"

\* ----------------------------------------------------------------------
\* C12: an apply to an existing job by an applicant without an Application
\* for it is answered 400 and stores nothing when no resume is attached;
\* with a resume it stores exactly one Application: of the addressed job, of
\* the caller, with the path multer stored the upload under, status applied.
C12_ApplyStoresTheUpload ==
    [][\A r \in Reqs :
         /\ (/\ req[r].pc = "apply_findOne" /\ Stepped(r)
             /\ ~HasApplied(req[r].id, req[r].user._id)) =>
              IF req[r].file = NoFile
              THEN /\ req'[r].pc = "done" /\ req'[r].resp = 400
                   /\ req'[r].by = "validation"
                   /\ apps' = apps
              ELSE req'[r].pc = "apply_save" /\ apps' = apps
         /\ (req[r].pc = "apply_save" /\ Stepped(r)) =>
              /\ req'[r].pc = "done" /\ req'[r].resp = 200
              /\ req[r].user.role = "applicant"
              /\ \E now \in Stamps : req[r].file = storedFilePath(now, PDF)
              /\ PathResolve(cwd, req[r].file) \in files
              /\ apps' = Append(apps,
                      [job |-> Oid(req[r].id), applicant |-> req[r].user._id,
                       resumeUrl |-> req[r].file, status |-> "applied"])]_vars

\* One apply without attachment was answered 400 with nothing stored for it,
\* and one with a resume stored the only Application, whose reference is a
\* file on disk.
C12_Witness ==
    \E r, q \in Reqs :
        /\ req[r].pc = "done" /\ req[r].op = "apply"
        /\ req[r].resp = 400 /\ req[r].by = "validation"
        /\ req[q].pc = "done" /\ req[q].op = "apply" /\ req[q].resp = 200
        /\ req[r].id # req[q].id
        /\ Len(apps) = 1
        /\ apps[1].job = Oid(req[q].id)
        /\ apps[1].resumeUrl = storedFilePath(1, PDF)
        /\ PathResolve(cwd, apps[1].resumeUrl) \in files

\* ----------------------------------------------------------------------
\* C13: a posting comes into being only by POST /jobs of a caller stored as
\* recruiter or admin, answered 201: it is owned by the caller, its status
\* is open and its title, company, location, salary range and description
\* are non-empty.  A create answered otherwise, and the create of a caller
\* stored as applicant, add no posting.
C13_CreateGate ==
    [][/\ \A j \in DOMAIN jobs' \ DOMAIN jobs :
            \E r \in Reqs :
                /\ req[r].pc = "job_create" /\ Stepped(r)
                /\ req[r].user.role \in {"recruiter", "admin"}
                /\ users[Caller(r)].role = req[r].user.role
                /\ req'[r].pc = "done" /\ req'[r].resp = 201
                /\ jobs'[j].postedBy = req[r].user._id
                /\ jobs'[j].status = "open"
                /\ \A f \in requiredFields : jobs'[j][f] # ""
                /\ DOMAIN jobs' = DOMAIN jobs \cup {j}
       /\ \A r \in Reqs :
            /\ (req[r].pc = "job_create" /\ Stepped(r) /\ req'[r].resp # 201) =>
                  (jobs' = jobs /\ req'[r].resp \in {400, 500})
            /\ (req[r].pc = "job_create" /\ Stepped(r) /\ req'[r].resp = 201) =>
                  DOMAIN jobs' # DOMAIN jobs
            /\ (/\ Arrived(r) /\ req'[r].op = "jobCreate"
                /\ req'[r].user # NoUser /\ req'[r].user.role = "applicant") =>
                  (req'[r].pc = "done" /\ req'[r].resp = 403 /\ jobs' = jobs)]_vars

\* A recruiter's create was answered 201 and its posting is stored, owned by
\* the recruiter and open, although the body named another owner and status;
\* an applicant's create was refused; a create lacking a field was answered
\* 400.
C13_Witness ==
    \E r, q \in Reqs :
        /\ req[r].pc = "done" /\ req[r].op = "jobCreate" /\ req[r].resp = 201
        /\ req[r].user.role = "recruiter"
        /\ req[r].id \in DOMAIN jobs \ DOMAIN InitJobs
        /\ jobs[req[r].id].postedBy = req[r].user._id
        /\ jobs[req[r].id].status = "open"
        /\ req[q].pc = "done" /\ req[q].op = "jobCreate"
        /\ \/ req[q].resp = 403 /\ req[q].by = "authorize" /\ req[q].user.role = "applicant"
           \/ req[q].resp = 400 /\ req[q].by = "validation"

\* ----------------------------------------------------------------------
\* C14: in every state, each posting that exists has the owner it was
\* created with, whatever updates, moderations and deletions any callers
\* have made.
C14_OwnerNeverChanges ==
    \A j \in DOMAIN jobs \cap DOMAIN InitJobs :
        jobs[j].postedBy = InitJobs[j].postedBy

\* A posting was updated by an admin with a body naming another owner, and
\* moderated, while the other posting was deleted: its owner is the original
\* one.
C14_Witness ==
    \E j \in DOMAIN jobs :
        /\ DOMAIN jobs = {j}
        /\ jobs[j].title = "T2" /\ jobs[j].status = "closed"
        /\ jobs[j].postedBy = InitJobs[j].postedBy
        /\ \E r \in Reqs :
              /\ req[r].pc = "done" /\ req[r].op = "jobUpdate" /\ req[r].resp = 200
              /\ req[r].id = j /\ req[r].user.role = "admin"

\* ----------------------------------------------------------------------
\* C15: every toggle answered with success flips the stored isBlocked flag
\* of the account it addresses, also when the lookup and the save of two
\* toggles interleave; so after k successes the flag differs from its first
\* value exactly when k is odd.
C15_SuccessfulToggleFlips ==
    [][\A r \in Reqs :
         (/\ req[r].pc = "toggle_save" /\ Stepped(r)
          /\ req'[r].resp = 200) =>
            users'[req[r].id].isBlocked = ~users[req[r].id].isBlocked]_vars

\* ----------------------------------------------------------------------
\* C16: a request that passed the gates and addresses a job with no stored
\* record (fetch, update, delete) is answered 404 and changes nothing that
\* is stored.
C16_MissingIs404 ==
    [][\A r \in Reqs :
         (/\ req[r].pc \in {"fetch_find", "update_find", "delete_find"}
          /\ Stepped(r)
          /\ req'[r].id \notin DOMAIN jobs) =>
            /\ req'[r].pc = "done"
            /\ req'[r].resp = 404
            /\ <<users, jobs, apps, files>>' = <<users, jobs, apps, files>>]_vars

\* ----------------------------------------------------------------------
\* C17: an answer of 500 carries the fixed message only: no field of its
\* body holds the text of the error that caused it.
C17_InternalErrorsAreGeneric ==
    \A r \in Reqs :
        (req[r].pc = "done" /\ req[r].resp = 500) => req[r].error = "none"

C19_ApplicationsAreNeverRemoved ==
    [][/\ Len(apps') >= Len(apps)
       /\ \A i \in DOMAIN apps :
            /\ apps'[i].job = apps[i].job
            /\ apps'[i].applicant = apps[i].applicant
            /\ apps'[i].resumeUrl = apps[i].resumeUrl
       /\ \A r \in Reqs :
            (req[r].pc = "delete_remove" /\ Stepped(r)) =>
               (apps' = apps /\ req[r].id \notin DOMAIN jobs')]_vars

\* A job that had an Application was deleted, and the Application is still
\* stored with its reference to the job.
C19_Witness ==
    \E r \in Reqs :
        /\ req[r].pc = "done" /\ req[r].op = "jobDelete" /\ req[r].resp = 200
        /\ req[r].id \notin DOMAIN jobs
        /\ \E i \in DOMAIN apps :
              /\ apps[i].job = Oid(req[r].id)
              /\ apps[i].status = "applied"
              /\ PathResolve(cwd, apps[i].resumeUrl) \in files

\* ----------------------------------------------------------------------
\* C20: after every step no two accounts have the same email, also when
\* the lookups and saves of two signups for one email interleave; a signup
\* whose lookup finds an account with its email is answered 400, and a save
\* the index refuses is answered 500: neither stores an account nor sends
\* the 200 that carries a token.
C20_OneAccountPerEmail ==
    [][/\ \A a, b \in DOMAIN users' : users'[a].email = users'[b].email => a = b
       /\ \A r \in Reqs :
            /\ (req[r].pc = "signup_find" /\ Stepped(r)) =>
                 /\ users' = users
                 /\ IF req'[r].pc = "signup_save"
                    THEN \A u \in DOMAIN users :
                             users[u].email # castEmail(req'[r].doc.email)
                    ELSE req'[r].pc = "done" /\ req'[r].resp = 400
            /\ (/\ req[r].pc = "signup_save" /\ Stepped(r)
                /\ \E u \in DOMAIN users :
                       users[u].email = castEmail(req[r].doc.email)) =>
                 (users' = users /\ req'[r].resp = 500)]_vars

\* One signup created the account of an email while another, whose lookup
\* had found none, is about to save the same email.
C20_Witness ==
    \E r, q \in Reqs :
        /\ req[r].pc = "done" /\ req[r].op = "signup" /\ req[r].resp = 200
        /\ req[r].id \in DOMAIN users \ DOMAIN InitUsers
        /\ req[q].pc = "signup_save"
        /\ castEmail(req[q].doc.email) = users[req[r].id].email
        /\ req[q].doc.email # users[req[r].id].email

\* ----------------------------------------------------------------------
\* C21: no step of any operation changes the role of an account: both
\* profile updates, whatever their bodies name, the resume and logo uploads
\* and the toggle leave every account in the store with the role it had.
C21_RoleNeverChanges ==
    [][\A u \in DOMAIN users :
         u \in DOMAIN users' /\ users'[u].role = users[u].role]_vars

\* A profile update whose body named role admin was stored for an account
\* that is no admin: its bio or its name is the body's, its role the
\* original one.
C21_Witness ==
    \E u \in DOMAIN users :
        /\ users[u].role # "admin"
        /\ users[u].role = InitUsers[u].role
        /\ users[u].profile.bio = "B"
        /\ users[u].name = "M"

\* ----------------------------------------------------------------------
\* C22: signup, which no middleware guards, stores the role of its body:
\* a signup whose body says admin and whose save succeeds creates an account
\* with role admin; a request that carries the token of such an account
\* enters the handler of every admin-only route (list users, toggle,
\* moderate, stats), and its delete of a posting of somebody else passes the
\* ownership check.
SignedUp == DOMAIN users \ DOMAIN InitUsers

C22_SignupGrantsAdmin ==
    [][\A r \in Reqs :
         /\ (/\ req[r].pc = "signup_save" /\ Stepped(r)
             /\ req[r].doc.role = "admin" /\ req'[r].resp = 200)
            => (/\ req'[r].id \in DOMAIN users' \ DOMAIN users
                /\ users'[req'[r].id].role = "admin")
         /\ (/\ Arrived(r) /\ req'[r].op \in AdminOnly \cup {"jobDelete"}
             /\ req'[r].user._id.v \in SignedUp
             /\ users[req'[r].user._id.v].role = "admin")
            => req'[r].pc = FirstStage(req'[r].op)
         /\ (/\ req[r].pc = "delete_find" /\ Stepped(r)
             /\ Caller(r) \in SignedUp /\ users[Caller(r)].role = "admin"
             /\ req'[r].id \in DOMAIN jobs)
            => req'[r].pc = "delete_remove"]_vars

\* An account that signup created with role admin has blocked one of the
\* original accounts and has deleted a recruiter's posting.
C22_Witness ==
    \E r \in Reqs :
        /\ req[r].pc = "done" /\ req[r].op = "jobDelete" /\ req[r].resp = 200
        /\ Caller(r) \in SignedUp
        /\ users[Caller(r)].role = "admin"
        /\ \E u \in DOMAIN InitUsers : users[u].isBlocked

\* ----------------------------------------------------------------------
\* C23: a status update that finds an application whose posting has been
\* deleted is answered 500 and changes nothing when the caller is a
\* recruiter, the posting's former owner included; when the caller is an
\* admin it goes on to its save, and the save of a status of the enum
\* answers 200 and stores that status.
Orphaned(i) == i \in DOMAIN apps /\ apps[i].job.v \notin DOMAIN jobs

C23_OrphanStatusUpdate ==
    [][\A r \in Reqs :
         /\ (/\ req[r].pc = "status_find" /\ Stepped(r) /\ Orphaned(req'[r].id))
            => IF req[r].user.role = "recruiter"
               THEN /\ req'[r].pc = "done" /\ req'[r].resp = 500
                    /\ apps' = apps
               ELSE /\ req'[r].pc = "status_save"
                    /\ apps' = apps
         /\ (/\ req[r].pc = "status_save" /\ Stepped(r) /\ Orphaned(req[r].id)
             /\ req[r].doc.status \in applicationStatusEnum)
            => (/\ req'[r].pc = "done" /\ req'[r].resp = 200
                /\ apps'[req[r].id].status = req[r].doc.status)]_vars

\* Posting 1 is gone; its former owner's status update of the application
\* to it was answered 500 and an admin's was answered 200, and the
\* application is shortlisted.
C23_Witness ==
    /\ 1 \notin DOMAIN jobs
    /\ apps[1].job = Oid(1) /\ apps[1].status = "shortlisted"
    /\ req[1].pc = "done" /\ req[1].op = "status" /\ req[1].id = 1
    /\ req[1].resp = 500 /\ Caller(1) = 2
    /\ req[2].pc = "done" /\ req[2].op = "status" /\ req[2].id = 1
    /\ req[2].resp = 200 /\ req[2].user.role = "admin"

\* ----------------------------------------------------------------------
\* C24: in every state that requests lead to from the empty store, the
\* resume reference of every application is a path the upload middleware
\* generated: directly under uploads/resumes, made of the field name, a
\* time stamp and the extension of an accepted attachment; and no resume
\* retrieval has been answered 400 by the path guard.
Generated(ref) ==
    /\ \E now \in Stamps, ext \in FileInputs \ {NoFile} :
          fileFilter(ext) /\ ref = storedFilePath(now, ext)
    /\ StartsWith(ref, uploadPath \o <<"/">> \o fieldname)
    /\ Len(SplitPath(ref)) = Len(SplitPath(uploadPath)) + 1

C24_ReferencesAreGenerated ==
    /\ \A i \in DOMAIN apps : Generated(apps[i].resumeUrl)
    /\ \A r \in Reqs :
          (req[r].pc = "done" /\ req[r].op = "resume") => req[r].by # "guard"

\* The resume of a stored application was retrieved: the guard let its
\* reference through and the file was sent.
C24_Witness ==
    \E r \in Reqs :
        /\ req[r].pc = "done" /\ req[r].op = "resume"
        /\ req[r].resp = 200 /\ req[r].by = "sendFile"
        /\ req[r].id \in DOMAIN apps

\* ----------------------------------------------------------------------
\* C25: an apply that protect and authorize let through goes to its upload
\* step first; the upload step stores an accepted attachment under
\* uploads/resumes whether or not the posting exists or the applicant has
\* applied; an apply that is then answered 404 or 400 as a duplicate leaves
\* the applications as they were and the stored file on disk.
Referenced(f) == \E i \in DOMAIN apps : PathResolve(cwd, apps[i].resumeUrl) = f

C25_UploadPrecedesTheChecks ==
    [][\A r \in Reqs :
         /\ (Arrived(r) /\ req'[r].op = "apply" /\ req'[r].pc # "done")
            => (/\ req'[r].pc = "apply_upload"
                /\ req'[r].user.role = "applicant")
         /\ (req[r].pc = "apply_upload" /\ Stepped(r) /\ req'[r].pc # "done")
            => (/\ req'[r].pc = "apply_findJob"
                /\ apps' = apps
                /\ req'[r].file # NoFile =>
                      /\ files' = files \cup {PathResolve(cwd, req'[r].file)}
                      /\ StartsWith(req'[r].file, uploadPath \o <<"/">>))
         /\ (/\ req[r].pc \in {"apply_findJob", "apply_findOne"} /\ Stepped(r)
             /\ req'[r].pc = "done" /\ req'[r].by \in {"handler", "duplicate"})
            => (/\ req'[r].resp = IF req[r].pc = "apply_findJob" THEN 404 ELSE 400
                /\ apps' = apps
                /\ files' = files
                /\ req[r].file # NoFile => PathResolve(cwd, req[r].file) \in files')]_vars

\* An apply with an attachment was answered 400 as a duplicate: the one
\* application refers to the file of the first apply, and the file the
\* second one uploaded is on disk with no application referring to it.
C25_Witness ==
    \E r \in Reqs :
        /\ req[r].pc = "done" /\ req[r].op = "apply"
        /\ req[r].resp = 400 /\ req[r].by = "duplicate"
        /\ Len(apps) = 1
        /\ Cardinality(files) = 2
        /\ \E f \in files : ~Referenced(f)

\* ----------------------------------------------------------------------
\* C26: once protect has let a request in, no later step of it reads the
\* account's isBlocked again: when a toggle has blocked the caller in the
\* meantime, no step is answered by protect, and the write steps of job
\* create, update and delete, of apply, of the status update and of the
\* profile update commit as they do for an account that is not blocked.
BlockedInFlight(r) ==
    /\ req[r].pc \notin {"idle", "done"}
    /\ req[r].user # NoUser
    /\ users[Caller(r)].isBlocked

C26_BlockedAfterAdmissionStillWrites ==
    [][\A r \in Reqs :
         (BlockedInFlight(r) /\ Stepped(r)) =>
            /\ req'[r].by \notin {"protect", "authorize"}
            /\ req[r].pc = "job_create" =>
                  \/ req'[r].resp \in {400, 500} /\ jobs' = jobs
                  \/ /\ req'[r].resp = 201
                     /\ req'[r].id \in DOMAIN jobs' \ DOMAIN jobs
                     /\ jobs'[req'[r].id].postedBy = req[r].user._id
            /\ (/\ req[r].pc = "update_save"
                /\ saveErrorMessage(req[r].doc, req[r].id \in DOMAIN jobs) = "none")
               => (/\ req'[r].resp = 200
                   /\ jobs' = [jobs EXCEPT ![req[r].id] = Saved(@, req[r].doc)])
            /\ req[r].pc = "delete_remove" =>
                  (req'[r].resp = 200 /\ req[r].id \notin DOMAIN jobs')
            /\ req[r].pc = "apply_save" =>
                  (/\ req'[r].resp = 200
                   /\ Len(apps') = Len(apps) + 1
                   /\ apps'[Len(apps')].applicant = req[r].user._id)
            /\ (req[r].pc = "status_save" /\ req[r].doc.status \in applicationStatusEnum)
               => (/\ req'[r].resp = 200
                   /\ apps'[req[r].id].status = req[r].doc.status)
            /\ (req[r].pc = "profile_save" /\ accountSchemaValid(req[r].doc))
               => (/\ req'[r].resp = 200
                   /\ users'[Caller(r)] = SavedUser(users[Caller(r)], req[r].doc))]_vars

\* The recruiter's update of a posting was let in, a toggle then blocked the
\* recruiter, and the update was saved: answered 200, the posting carries
\* the new title and the account is blocked.
C26_Witness ==
    \E r \in Reqs :
        /\ req[r].pc = "done" /\ req[r].op = "jobUpdate" /\ req[r].resp = 200
        /\ users[Caller(r)].isBlocked
        /\ jobs[req[r].id].title = "T2"
        /\ \E t \in Reqs :
              /\ req[t].pc = "done" /\ req[t].op = "toggle" /\ req[t].resp = 200
              /\ req[t].id = Caller(r)

====
